---- MODULE Spec2Model ----
(***************************************************************************)
(* Model of chuangag/pytorch-template:                                     *)
(*   src/trainer/trainer.py   Trainer._train_epoch / _valid_epoch          *)
(*   src/base/base_logger.py  BaseLogger.add_entry / log                   *)
(*                                                                         *)
(* The trainer is modelled statement by statement: every call of an        *)
(* external collaborator (optimizer, model, loss, metric, logger, visdom)  *)
(* is one step, so that an exception raised by one of them can interrupt   *)
(* the epoch exactly where Python would.  The collaborators themselves are *)
(* small deterministic stand-ins (a one-weight model, an integer loss);    *)
(* floats are exact rationals <<numerator, denominator>> in lowest terms.  *)
(***************************************************************************)
EXTENDS Integers, Sequences, FiniteSets, TLC

\* ------------------------------------------------------------------ bounds
MaxBatches == 3        \* longest training loader
MaxValBatches == 2     \* longest validation loader
MaxMetrics == 2        \* longest metric list
MaxEpochs == 2         \* epochs the caller runs
MaxDirectCalls == 2    \* direct _valid_epoch calls by the caller
MaxEntries == 4        \* add_entry calls on one logger

\* ------------------------------------------------------- input value sets
Batches == {<<0, 0>>, <<1, 1>>}  \* (data, target) pairs a loader yields
MetricNames == {"acc", "one"}
BatchSizes == {4}
Verbosities == {1, 2}
EntryValues == {"a", "b", "c"}

NumWeights == 3        \* the stand-in model has one weight in 0..NumWeights-1
DefaultX == 0          \* x visdom gives a single point sent without X

VARIABLES
    \* Trainer configuration (trainer.py:16-27)
    metrics, data_loader, valid_data_loader, valid, batch_size, log_step,
    verbosity, visualize,
    \* Trainer state kept across calls
    plt_train_loss, plt_val_loss, training, params, grad,
    \* the running call: position and locals
    pc, call, epoch, last_epoch, batch_idx, data, target, output, loss,
    total_loss, total_metrics, total_val_loss, total_val_metrics, log, val_log,
    \* what the caller and the outside world see
    outcome, result, progress, train_series, val_series,
    \* history of the running call
    trace, vtrace, loss_hist, metric_hist, val_loss_hist, val_metric_hist,
    valid_calls, val_sent, direct_calls, vEntry, val_runs, fetched,
    \* BaseLogger
    entries, appended, log_result, log_outcome

cfgVars == <<metrics, data_loader, valid_data_loader, valid, batch_size, log_step,
             verbosity, visualize>>
modelVars == <<training, params, grad>>
pltVars == <<plt_train_loss, plt_val_loss, train_series, val_series>>
callVars == <<call, epoch, last_epoch>>
batchVars == <<batch_idx, data, target, output, loss>>
accVars == <<total_loss, total_metrics, total_val_loss, total_val_metrics>>
dictVars == <<log, val_log>>
outVars == <<outcome, result, progress>>
histT == <<trace, loss_hist, metric_hist>>
histV == <<vtrace, val_loss_hist, val_metric_hist, vEntry, val_sent>>
histC == <<valid_calls, direct_calls, val_runs>>
loggerVars == <<entries, appended, log_result, log_outcome>>
trainerVars == <<cfgVars, modelVars, pltVars, callVars, batchVars, accVars, dictVars,
                 outVars, histT, histV, histC, pc, fetched>>
vars == <<trainerVars, loggerVars>>

\* ----------------------------------------------------------------- helpers
SeqsUpTo(S, n) == UNION {[1..k -> S] : k \in 0..n}

RECURSIVE GCD(_, _)
GCD(a, b) == IF b = 0 THEN a ELSE GCD(b, a % b)

\* Python's a / b for b > 0, kept exact
TrueDiv(a, b) == LET g == GCD(a, b) IN <<a \div g, b \div g>>

RECURSIVE SumSeq(_)
SumSeq(s) == IF s = <<>> THEN 0 ELSE Head(s) + SumSeq(Tail(s))

Zeros(n) == [i \in 1..n |-> 0]
VecAdd(u, v) == [i \in DOMAIN u |-> u[i] + v[i]]
VecDiv(u, n) == [i \in DOMAIN u |-> TrueDiv(u[i], n)]

EmptyDict == [k \in {} |-> 0]
\* mutant: log = val_log
MergeDictsRight(a, b) == b

\* {**a, **b}
MergeDicts(a, b) == [k \in (DOMAIN a) \cup (DOMAIN b) |->
                        IF k \in DOMAIN b THEN b[k] ELSE a[k]]

\* int(np.sqrt(n))
IntSqrt(n) == CHOOSE r \in 0..n : r * r <= n /\ (r + 1) * (r + 1) > n

\* '{:.0f}'.format(100.0 * b / n): round to nearest, ties to even
Percent(b, n) == LET q == (100 * b) \div n
                     r == (100 * b) % n
                 IN  IF 2 * r > n THEN q + 1
                     ELSE IF 2 * r < n THEN q
                     ELSE q + (q % 2)

\* --------------------------------------------- the external collaborators
\* self.model(data): class scores, one row
ModelFn(w, d) == <<w, d>>
\* self.loss(output, target): a positive scalar
LossFn(out, t) == 1 + ((out[1] + out[2] + t) % 3)
\* np.argmax(output, axis=1): first index of the maximum, 0-based
ArgMax(out) == IF out[2] > out[1] THEN 1 ELSE 0
\* one configured metric function
MetricFn(name, pred, t) == IF name = "one" THEN 1
                           ELSE IF pred = t THEN 1 ELSE 0
\* loss.backward() adds the gradient to the accumulated one
BackwardFn(g, l) == (g + l) % NumWeights
\* optimizer.step()
StepFn(w, g) == (w + g) % NumWeights

\* Trainer._eval_metrics
EvalMetrics(out, t) ==
    LET acc_metrics == Zeros(Len(metrics))
        pred == ArgMax(out)
    IN  [i \in 1..Len(metrics) |-> acc_metrics[i] + MetricFn(metrics[i], pred, t)]

\* one observed operation of a batch, with the weights and gradients it leaves
Event(op, w, g) == [op |-> op, params |-> w, grad |-> g]

\* Trainer._to_variable (device placement is not modelled)
ToVariable(b) == <<b[1], b[2]>>

\* -------------------------------------------------------------------- Init
\* BaseLogger.__init__
LoggerInit ==
    /\ entries = EmptyDict
    /\ appended = <<>>
    /\ log_result = "none"
    /\ log_outcome = "none"

\* Trainer.__init__ on a fresh model and optimizer, no call made yet
TrainerStart(ms, dl, v, vdl, bs, vb, vz) ==
    /\ metrics = ms
    /\ data_loader = dl
    /\ valid = v
    /\ valid_data_loader = vdl
    /\ batch_size = bs
    /\ log_step = IntSqrt(bs)
    /\ verbosity = vb
    /\ visualize = vz
    /\ plt_train_loss = "None"
    /\ plt_val_loss = "None"
    /\ training = TRUE
    /\ pc = "idle"
    /\ call = "none"
    /\ epoch = 0
    /\ last_epoch = 0
    /\ batch_idx = 0
    /\ data = 0
    /\ target = 0
    /\ output = <<>>
    /\ loss = 0
    /\ total_loss = 0
    /\ total_metrics = <<>>
    /\ total_val_loss = 0
    /\ total_val_metrics = <<>>
    /\ log = EmptyDict
    /\ val_log = EmptyDict
    /\ outcome = "none"
    /\ result = EmptyDict
    /\ progress = <<>>
    /\ train_series = <<>>
    /\ val_series = <<>>
    /\ trace = <<>>
    /\ vtrace = <<>>
    /\ loss_hist = <<>>
    /\ metric_hist = <<>>
    /\ val_loss_hist = <<>>
    /\ val_metric_hist = <<>>
    /\ valid_calls = 0
    /\ val_sent = <<>>
    /\ direct_calls = 0
    /\ vEntry = <<0, 0>>
    /\ val_runs = <<>>
    /\ fetched = 0

Init ==
    /\ \E ms \in SeqsUpTo(MetricNames, MaxMetrics), dl \in SeqsUpTo(Batches, MaxBatches),
          v \in BOOLEAN, bs \in BatchSizes, vb \in Verbosities, vz \in BOOLEAN :
          \E vdl \in (IF v THEN SeqsUpTo(Batches, MaxValBatches) ELSE {<<>>}) :
             TrainerStart(ms, dl, v, vdl, bs, vb, vz)
    /\ params = 0
    /\ grad = 0
    /\ LoggerInit

\* ------------------------------------------------------------ _train_epoch
\* the caller's epoch loop calls _train_epoch(epoch); lines 61-66
CallTrainEpoch ==
    /\ pc = "idle"
    /\ last_epoch < MaxEpochs
    /\ call' = "train"
    /\ epoch' = last_epoch + 1
    /\ last_epoch' = last_epoch + 1
    /\ training' = TRUE
    /\ total_loss' = 0
    /\ total_metrics' = Zeros(Len(metrics))
    /\ fetched' = 0
    /\ pc' = "t_fetch"
    /\ outcome' = "running"
    /\ result' = EmptyDict
    /\ progress' = <<>>
    /\ trace' = <<>>
    /\ loss_hist' = <<>>
    /\ metric_hist' = <<>>
    /\ vtrace' = <<>>
    /\ val_loss_hist' = <<>>
    /\ val_metric_hist' = <<>>
    /\ val_sent' = <<>>
    /\ valid_calls' = 0
    /\ val_runs' = <<>>
    /\ UNCHANGED <<cfgVars, loggerVars, pltVars, batchVars, dictVars, params, grad,
                   total_val_loss, total_val_metrics, vEntry, direct_calls>>

\* for batch_idx, (data, target) in enumerate(self.data_loader); _to_variable
TrainFetch ==
    /\ pc = "t_fetch"
    /\ IF fetched < Len(data_loader)
         THEN /\ batch_idx' = fetched
              /\ data' = ToVariable(data_loader[fetched + 1])[1]
              /\ target' = ToVariable(data_loader[fetched + 1])[2]
              /\ fetched' = fetched + 1
              /\ pc' = "zero_grad"
         ELSE /\ pc' = "summary"
              /\ UNCHANGED <<batch_idx, data, target, fetched>>
    /\ UNCHANGED <<cfgVars, loggerVars, modelVars, pltVars, callVars, output, loss,
                   accVars, dictVars, outVars, histT, histV, histC>>

\* mutant: the gradient reset is left out of the loop
ZeroGradSkipped ==
    /\ pc = "zero_grad"
    /\ pc' = "forward"
    /\ UNCHANGED <<cfgVars, loggerVars, modelVars, pltVars, callVars, batchVars,
                   accVars, dictVars, outVars, histT, histV, histC, fetched>>

\* self.optimizer.zero_grad()
ZeroGrad ==
    /\ pc = "zero_grad"
    /\ grad' = 0
    /\ trace' = Append(trace, Event("zero_grad", params, grad'))
    /\ pc' = "forward"
    /\ UNCHANGED <<cfgVars, loggerVars, training, params, pltVars, callVars, batchVars,
                   accVars, dictVars, outVars, loss_hist, metric_hist, histV, histC,
                   fetched>>

\* output = self.model(data)
Forward ==
    /\ pc = "forward"
    /\ output' = ModelFn(params, data)
    /\ trace' = Append(trace, Event("forward", params, grad))
    /\ pc' = "loss"
    /\ UNCHANGED <<cfgVars, loggerVars, modelVars, pltVars, callVars, batch_idx, data,
                   target, loss, accVars, dictVars, outVars, loss_hist, metric_hist,
                   histV, histC, fetched>>

\* loss = self.loss(output, target)
ComputeLoss ==
    /\ pc = "loss"
    /\ loss' = LossFn(output, target)
    /\ loss_hist' = Append(loss_hist, LossFn(output, target))
    /\ trace' = Append(trace, Event("loss", params, grad))
    /\ pc' = "backward"
    /\ UNCHANGED <<cfgVars, loggerVars, modelVars, pltVars, callVars, batch_idx, data,
                   target, output, accVars, dictVars, outVars, metric_hist, histV,
                   histC, fetched>>

\* loss.backward()
Backward ==
    /\ pc = "backward"
    /\ grad' = BackwardFn(grad, loss)
    /\ trace' = Append(trace, Event("backward", params, grad'))
    /\ pc' = "step"
    /\ UNCHANGED <<cfgVars, loggerVars, training, params, pltVars, callVars, batchVars,
                   accVars, dictVars, outVars, loss_hist, metric_hist, histV, histC,
                   fetched>>

\* self.optimizer.step()
OptStep ==
    /\ pc = "step"
    /\ params' = StepFn(params, grad)
    /\ trace' = Append(trace, Event("step", params', grad))
    /\ pc' = "accum_loss"
    /\ UNCHANGED <<cfgVars, loggerVars, training, grad, pltVars, callVars, batchVars,
                   accVars, dictVars, outVars, loss_hist, metric_hist, histV, histC,
                   fetched>>

\* mutant: total_loss = loss.data[0]
AccumLossOverwrite ==
    /\ pc = "accum_loss"
    /\ total_loss' = loss
    /\ trace' = Append(trace, Event("accum_loss", params, grad))
    /\ pc' = "metrics"
    /\ UNCHANGED <<cfgVars, loggerVars, modelVars, pltVars, callVars, batchVars,
                   total_metrics, total_val_loss, total_val_metrics, dictVars, outVars,
                   loss_hist, metric_hist, histV, histC, fetched>>

\* total_loss += loss.data[0]
AccumLoss ==
    /\ pc = "accum_loss"
    /\ total_loss' = total_loss + loss
    /\ trace' = Append(trace, Event("accum_loss", params, grad))
    /\ pc' = "metrics"
    /\ UNCHANGED <<cfgVars, loggerVars, modelVars, pltVars, callVars, batchVars,
                   total_metrics, total_val_loss, total_val_metrics, dictVars, outVars,
                   loss_hist, metric_hist, histV, histC, fetched>>

\* total_metrics += self._eval_metrics(output, target)
AccumMetrics ==
    /\ pc = "metrics"
    /\ total_metrics' = VecAdd(total_metrics, EvalMetrics(output, target))
    /\ metric_hist' = Append(metric_hist,
                             [i \in 1..Len(metrics) |->
                                 MetricFn(metrics[i], ArgMax(output), target)])
    /\ trace' = Append(trace, Event("metrics", params, grad))
    /\ pc' = "log"
    /\ UNCHANGED <<cfgVars, loggerVars, modelVars, pltVars, callVars, batchVars,
                   total_loss, total_val_loss, total_val_metrics, dictVars, outVars,
                   loss_hist, histV, histC, fetched>>

\* if self.verbosity >= 2 and batch_idx % self.log_step == 0: self.logger.info(...)
LogProgress ==
    /\ pc = "log"
    /\ IF verbosity >= 2 /\ batch_idx % log_step = 0
         THEN progress' = Append(progress,
                 [epoch |-> epoch,
                  done |-> batch_idx * batch_size,
                  total |-> Len(data_loader) * batch_size,
                  percent |-> Percent(batch_idx, Len(data_loader)),
                  loss |-> loss])
         ELSE UNCHANGED progress
    /\ pc' = "viz"
    /\ UNCHANGED <<cfgVars, loggerVars, modelVars, pltVars, callVars, batchVars, accVars,
                   dictVars, outcome, result, histT, histV, histC, fetched>>

\* mutant: X=np.array([batch_idx])
TrainXPerEpoch(b, e, n) == b

\* X=np.array([batch_idx+(epoch-1)*len(self.data_loader)])
TrainX(b, e, n) == b + (e - 1) * n

\* if self.visualize: create the training-loss window or append to it
PlotTrain ==
    /\ pc = "viz"
    /\ IF visualize
         THEN IF plt_train_loss = "None"
                THEN /\ plt_train_loss' = "win_train"
                     /\ train_series' = <<[kind |-> "create", x |-> DefaultX, y |-> loss]>>
                ELSE /\ train_series' = Append(train_series,
                            [kind |-> "append",
                             x |-> TrainX(batch_idx, epoch, Len(data_loader)),
                             y |-> loss])
                     /\ UNCHANGED plt_train_loss
         ELSE UNCHANGED <<plt_train_loss, train_series>>
    /\ pc' = "t_fetch"
    /\ UNCHANGED <<cfgVars, loggerVars, modelVars, plt_val_loss, val_series, callVars,
                   batchVars, accVars, dictVars, outVars, histT, histV, histC, fetched>>

\* log = {'loss': total_loss / len(...), 'metrics': (total_metrics / len(...)).tolist()}
\* the first division raises ZeroDivisionError on an empty loader
Summary ==
    /\ pc = "summary"
    /\ IF Len(data_loader) = 0
         THEN /\ outcome' = "ZeroDivisionError"
              /\ pc' = "failed"
              /\ UNCHANGED log
         ELSE /\ log' = [loss |-> TrueDiv(total_loss, Len(data_loader)),
                         metrics |-> VecDiv(total_metrics, Len(data_loader))]
              /\ pc' = "t_valid"
              /\ UNCHANGED outcome
    /\ UNCHANGED <<cfgVars, loggerVars, modelVars, pltVars, callVars, batchVars, accVars,
                   val_log, result, progress, histT, histV, histC, fetched>>

\* ------------------------------------------------------------ _valid_epoch
\* lines 120-122: self.model.eval(), zeroed accumulators, a fresh iterator
EnterValid ==
    /\ training' = FALSE
    /\ total_val_loss' = 0
    /\ total_val_metrics' = Zeros(Len(metrics))
    /\ fetched' = 0
    /\ pc' = "v_fetch"
    /\ vEntry' = <<params, grad>>
    /\ vtrace' = <<>>
    /\ val_loss_hist' = <<>>
    /\ val_metric_hist' = <<>>
    /\ val_sent' = <<>>

\* if self.valid: val_log = self._valid_epoch(epoch)
TrainValid ==
    /\ pc = "t_valid"
    /\ IF valid
         THEN /\ EnterValid
              /\ valid_calls' = valid_calls + 1
         ELSE /\ pc' = "t_return"
              /\ UNCHANGED <<training, total_val_loss, total_val_metrics, fetched, histV,
                             valid_calls>>
    /\ UNCHANGED <<cfgVars, loggerVars, params, grad, pltVars, callVars, batchVars,
                   total_loss, total_metrics, dictVars, outVars, histT, direct_calls,
                   val_runs>>

\* the caller calls _valid_epoch(e) itself
CallValidEpoch ==
    /\ pc = "idle"
    /\ valid
    /\ direct_calls < MaxDirectCalls
    /\ \E e \in 1..MaxEpochs : epoch' = e
    /\ call' = "valid"
    /\ direct_calls' = direct_calls + 1
    /\ EnterValid
    /\ outcome' = "running"
    /\ result' = EmptyDict
    /\ UNCHANGED <<cfgVars, loggerVars, params, grad, pltVars, last_epoch, batchVars,
                   total_loss, total_metrics, dictVars, progress, histT, valid_calls,
                   val_runs>>

\* for batch_idx, (data, target) in enumerate(self.valid_data_loader); _to_variable
ValidFetch ==
    /\ pc = "v_fetch"
    /\ IF fetched < Len(valid_data_loader)
         THEN /\ batch_idx' = fetched
              /\ data' = ToVariable(valid_data_loader[fetched + 1])[1]
              /\ target' = ToVariable(valid_data_loader[fetched + 1])[2]
              /\ fetched' = fetched + 1
              /\ pc' = "v_forward"
         ELSE /\ pc' = "v_viz"
              /\ UNCHANGED <<batch_idx, data, target, fetched>>
    /\ UNCHANGED <<cfgVars, loggerVars, modelVars, pltVars, callVars, output, loss,
                   accVars, dictVars, outVars, histT, histV, histC>>

\* output = self.model(data)
ValidForward ==
    /\ pc = "v_forward"
    /\ output' = ModelFn(params, data)
    /\ vtrace' = Append(vtrace, Event("forward", params, grad))
    /\ pc' = "v_loss"
    /\ UNCHANGED <<cfgVars, loggerVars, modelVars, pltVars, callVars, batch_idx, data,
                   target, loss, accVars, dictVars, outVars, histT, val_loss_hist,
                   val_metric_hist, vEntry, val_sent, histC, fetched>>

\* mutant: the training loop's loss.backward() and optimizer.step() left in
ValidLossAndStep ==
    /\ pc = "v_loss"
    /\ loss' = LossFn(output, target)
    /\ val_loss_hist' = Append(val_loss_hist, LossFn(output, target))
    /\ grad' = BackwardFn(grad, LossFn(output, target))
    /\ params' = StepFn(params, grad')
    /\ vtrace' = Append(vtrace, Event("loss", params', grad'))
    /\ pc' = "v_accum_loss"
    /\ UNCHANGED <<cfgVars, loggerVars, training, pltVars, callVars, batch_idx, data,
                   target, output, accVars, dictVars, outVars, histT, val_metric_hist,
                   vEntry, val_sent, histC, fetched>>

\* loss = self.loss(output, target)
ValidLoss ==
    /\ pc = "v_loss"
    /\ loss' = LossFn(output, target)
    /\ val_loss_hist' = Append(val_loss_hist, LossFn(output, target))
    /\ vtrace' = Append(vtrace, Event("loss", params, grad))
    /\ pc' = "v_accum_loss"
    /\ UNCHANGED <<cfgVars, loggerVars, modelVars, pltVars, callVars, batch_idx, data,
                   target, output, accVars, dictVars, outVars, histT, val_metric_hist,
                   vEntry, val_sent, histC, fetched>>

\* total_val_loss += loss.data[0]
ValidAccumLoss ==
    /\ pc = "v_accum_loss"
    /\ total_val_loss' = total_val_loss + loss
    /\ vtrace' = Append(vtrace, Event("accum_loss", params, grad))
    /\ pc' = "v_metrics"
    /\ UNCHANGED <<cfgVars, loggerVars, modelVars, pltVars, callVars, batchVars,
                   total_loss, total_metrics, total_val_metrics, dictVars, outVars,
                   histT, val_loss_hist, val_metric_hist, vEntry, val_sent, histC,
                   fetched>>

\* total_val_metrics += self._eval_metrics(output, target)
ValidAccumMetrics ==
    /\ pc = "v_metrics"
    /\ total_val_metrics' = VecAdd(total_val_metrics, EvalMetrics(output, target))
    /\ val_metric_hist' = Append(val_metric_hist,
                                 [i \in 1..Len(metrics) |->
                                     MetricFn(metrics[i], ArgMax(output), target)])
    /\ vtrace' = Append(vtrace, Event("metrics", params, grad))
    /\ pc' = "v_fetch"
    /\ UNCHANGED <<cfgVars, loggerVars, modelVars, pltVars, callVars, batchVars,
                   total_loss, total_metrics, total_val_loss, dictVars, outVars, histT,
                   val_loss_hist, vEntry, val_sent, histC, fetched>>

\* if self.visualize: create the validation-loss window or append to it;
\* Y divides by len(self.valid_data_loader)
PlotValid ==
    /\ pc = "v_viz"
    /\ IF ~visualize
         THEN /\ pc' = "v_return"
              /\ UNCHANGED <<plt_val_loss, val_series, val_sent, outcome>>
         ELSE IF Len(valid_data_loader) = 0
           THEN /\ outcome' = "ZeroDivisionError"
                /\ pc' = "failed"
                /\ UNCHANGED <<plt_val_loss, val_series, val_sent>>
           ELSE /\ pc' = "v_return"
                /\ UNCHANGED outcome
                /\ IF plt_val_loss = "None"
                     THEN LET pt == [kind |-> "create", x |-> DefaultX,
                                     y |-> TrueDiv(total_val_loss, Len(valid_data_loader))]
                          IN  /\ plt_val_loss' = "win_val"
                              /\ val_series' = <<pt>>
                              /\ val_sent' = Append(val_sent, pt)
                     ELSE LET pt == [kind |-> "append", x |-> epoch - 1,
                                     y |-> TrueDiv(total_val_loss, Len(valid_data_loader))]
                          IN  /\ val_series' = Append(val_series, pt)
                              /\ val_sent' = Append(val_sent, pt)
                              /\ UNCHANGED plt_val_loss
    /\ UNCHANGED <<cfgVars, loggerVars, modelVars, plt_train_loss, train_series, callVars,
                   batchVars, accVars, dictVars, result, progress, histT, vtrace,
                   val_loss_hist, val_metric_hist, vEntry, histC, fetched>>

\* return {'val_loss': ..., 'val_metrics': ...}; back in _train_epoch the value is
\* bound to val_log, a direct caller receives it
ValidReturn ==
    /\ pc = "v_return"
    /\ IF Len(valid_data_loader) = 0
         THEN /\ outcome' = "ZeroDivisionError"
              /\ pc' = "failed"
              /\ UNCHANGED <<val_log, result, val_runs>>
         ELSE LET ret == [val_loss |-> TrueDiv(total_val_loss, Len(valid_data_loader)),
                          val_metrics |-> VecDiv(total_val_metrics, Len(valid_data_loader))]
              IN  /\ val_log' = ret
                  /\ val_runs' = Append(val_runs, ret)
                  /\ IF call = "train"
                       THEN /\ pc' = "t_merge"
                            /\ UNCHANGED <<outcome, result>>
                       ELSE /\ pc' = "idle"
                            /\ outcome' = "returned"
                            /\ result' = ret
    /\ UNCHANGED <<cfgVars, loggerVars, modelVars, pltVars, callVars, batchVars, accVars,
                   log, progress, histT, histV, valid_calls, direct_calls, fetched>>

\* log = {**log, **val_log}
TrainMerge ==
    /\ pc = "t_merge"
    /\ log' = MergeDicts(log, val_log)
    /\ pc' = "t_return"
    /\ UNCHANGED <<cfgVars, loggerVars, modelVars, pltVars, callVars, batchVars, accVars,
                   val_log, outVars, histT, histV, histC, fetched>>

\* return log
TrainReturn ==
    /\ pc = "t_return"
    /\ result' = log
    /\ outcome' = "returned"
    /\ pc' = "idle"
    /\ UNCHANGED <<cfgVars, loggerVars, modelVars, pltVars, callVars, batchVars, accVars,
                   dictVars, progress, histT, histV, histC, fetched>>

\* ------------------------------------------------------------- exceptions
\* statements that call the optimizer, the model, the loss or a metric
FailSites == {"zero_grad", "forward", "loss", "backward", "step", "metrics",
              "v_forward", "v_loss", "v_metrics"}

\* mutant: the exception is caught and the means so far are returned
RaiseReturnsPartial ==
    /\ pc \in FailSites
    /\ outcome' = "PropagatedComputeError"
    /\ result' = [loss |-> TrueDiv(total_loss, batch_idx + 1),
                  metrics |-> VecDiv(total_metrics, batch_idx + 1)]
    /\ pc' = "failed"
    /\ UNCHANGED <<cfgVars, loggerVars, modelVars, pltVars, callVars, batchVars, accVars,
                   dictVars, progress, histT, histV, histC, fetched>>

\* such a call raises; neither method has a try block, so the exception leaves
\* the running call and reaches the caller
Raise ==
    /\ pc \in FailSites
    /\ outcome' = "PropagatedComputeError"
    /\ pc' = "failed"
    /\ UNCHANGED <<cfgVars, loggerVars, modelVars, pltVars, callVars, batchVars, accVars,
                   dictVars, result, progress, histT, histV, histC, fetched>>

Next ==
    \/ CallTrainEpoch \/ TrainFetch \/ ZeroGrad \/ Forward \/ ComputeLoss \/ Backward
    \/ OptStep \/ AccumLoss \/ AccumMetrics \/ LogProgress \/ PlotTrain \/ Summary
    \/ TrainValid \/ ValidFetch \/ ValidForward \/ ValidLoss
    \/ ValidAccumLoss \/ ValidAccumMetrics \/ PlotValid \/ ValidReturn \/ TrainMerge
    \/ TrainReturn \/ Raise

\* the caller's epoch loop: _train_epoch for epochs 1, 2, ..., each running
\* _valid_epoch itself when a validation loader is configured
Spec == Init /\ [][Next]_vars

\* a trainer with a validation loader, after any amount of training, whose
\* caller runs _valid_epoch on its own
ValidInit ==
    /\ \E ms \in SeqsUpTo(MetricNames, MaxMetrics), dl \in {<<b>> : b \in Batches},
          vdl \in SeqsUpTo(Batches, MaxValBatches), vz \in BOOLEAN :
             TrainerStart(ms, dl, TRUE, vdl, 1, 1, vz)
    /\ params \in 0..(NumWeights - 1)
    /\ grad \in 0..(NumWeights - 1)
    /\ LoggerInit

ValidNext ==
    \/ CallValidEpoch \/ ValidFetch \/ ValidForward \/ ValidLoss \/ ValidAccumLoss
    \/ ValidAccumMetrics \/ PlotValid \/ ValidReturn \/ Raise

ValidSpec == ValidInit /\ [][ValidNext]_vars

\* -------------------------------------------------------------- BaseLogger
\* d[k] = v
DictSet(d, k, v) == [j \in (DOMAIN d) \cup {k} |-> IF j = k THEN v ELSE d[j]]

\* mutant: self.entries[len(self.entries)] = entry
AddEntryZeroBased ==
    /\ Len(appended) < MaxEntries
    /\ \E entry \in EntryValues :
         /\ entries' = DictSet(entries, Cardinality(DOMAIN entries), entry)
         /\ appended' = Append(appended, entry)
    /\ UNCHANGED <<trainerVars, log_result, log_outcome>>

\* self.entries[len(self.entries) + 1] = entry
AddEntry ==
    /\ Len(appended) < MaxEntries
    /\ \E entry \in EntryValues :
         /\ entries' = DictSet(entries, Cardinality(DOMAIN entries) + 1, entry)
         /\ appended' = Append(appended, entry)
    /\ UNCHANGED <<trainerVars, log_result, log_outcome>>

\* return NotImplementedError
Log ==
    /\ log_outcome' = "returned"
    /\ log_result' = "NotImplementedError"
    /\ UNCHANGED <<trainerVars, entries, appended>>

LogInit ==
    /\ TrainerStart(<<>>, <<>>, FALSE, <<>>, 1, 1, FALSE)
    /\ params = 0
    /\ grad = 0
    /\ LoggerInit

LogNext == AddEntry \/ Log

LogSpec == LogInit /\ [][LogNext]_vars

\* ------------------------------------------------------------ properties
\* q = <<n, d>> is the arithmetic mean of the non-empty sequence hist
IsMean(q, hist) == Len(hist) > 0 /\ q[2] > 0 /\ q[1] * Len(hist) = q[2] * SumSeq(hist)
\* the values of the i-th metric over the batches of hist
Column(hist, i) == [k \in 1..Len(hist) |-> hist[k][i]]

TrainReturned == call = "train" /\ outcome = "returned"
Failed == outcome = "PropagatedComputeError"

\* C1: the summary _train_epoch returns has 'loss' = (sum of the per-batch losses) /
\* (number of batches processed) and 'metrics'[i] = (sum of the i-th metric's
\* per-batch values) / (that number); 'val_loss' and 'val_metrics' are the same
\* means over the validation batches.
C1_EpochMeans ==
    TrainReturned =>
        /\ IsMean(result.loss, loss_hist)
        /\ Len(metric_hist) = Len(loss_hist)
        /\ Len(result.metrics) = Len(metrics)
        /\ \A i \in 1..Len(metrics) : IsMean(result.metrics[i], Column(metric_hist, i))
        /\ valid =>
             /\ IsMean(result.val_loss, val_loss_hist)
             /\ Len(val_metric_hist) = Len(val_loss_hist)
             /\ Len(result.val_metrics) = Len(metrics)
             /\ \A i \in 1..Len(metrics) :
                   IsMean(result.val_metrics[i], Column(val_metric_hist, i))

\* three batches with losses 1, 2, 3 and no metrics returned loss 2, metrics []
C1_Witness ==
    /\ TrainReturned
    /\ loss_hist = <<1, 2, 3>>
    /\ metrics = <<>>
    /\ result.loss = <<2, 1>>
    /\ result.metrics = <<>>

\* a loader that yielded no batch was iterated by the call that has ended
EmptySourceRun ==
    /\ pc \in {"idle", "failed"}
    /\ outcome \notin {"none", "running"}
    /\ \/ call = "train" /\ Len(data_loader) = 0
       \/ valid /\ Len(valid_data_loader) = 0 /\ (valid_calls > 0 \/ call = "valid")

\* C2: a call whose batch source yields zero batches ends in EmptyDataSourceError
\* and returns no summary.
C2_EmptySourceError ==
    EmptySourceRun => outcome = "EmptyDataSourceError" /\ DOMAIN result = {}

\* C3: every point appended to the training-loss series lies strictly to the right
\* of the point before it, across epoch boundaries too.
C3_TrainXIncreasing ==
    \A i \in 2..Len(train_series) :
        train_series[i].kind = "append" => train_series[i].x > train_series[i - 1].x

\* the first batch of epoch 2 was appended right after the last batch of epoch 1
C3_Witness ==
    /\ visualize
    /\ Len(data_loader) >= 2
    /\ \E i \in 2..Len(train_series) :
          /\ train_series[i].x = Len(data_loader)
          /\ train_series[i - 1].x = Len(data_loader) - 1

\* C4: with visualization on, a _valid_epoch(e) call sends exactly one point to the
\* validation-loss series, at x = e - 1, the first call included.
C4_ValidPointAtEpoch ==
    (call = "valid" /\ outcome = "returned" /\ visualize) =>
        Len(val_sent) = 1 /\ val_sent[1].x = epoch - 1

\* C5: _valid_epoch resets no gradient, runs no backward pass and takes no optimizer
\* step: weights and gradients stay as they were on entry, and _valid_epoch calls in
\* a row return identical results.
C5_ValidIsPure ==
    /\ call = "valid" => <<params, grad>> = vEntry
    /\ \A i \in 1..Len(vtrace) :
          /\ vtrace[i].op \in {"forward", "loss", "accum_loss", "metrics"}
          /\ <<vtrace[i].params, vtrace[i].grad>> = vEntry
    /\ \A i, j \in 1..Len(val_runs) : val_runs[i] = val_runs[j]

\* a second _valid_epoch call in a row has returned, over a non-empty loader
C5_Witness ==
    /\ call = "valid"
    /\ outcome = "returned"
    /\ Len(val_runs) = 2
    /\ Len(valid_data_loader) > 0
    /\ params # 0

\* C6 as stated: an epoch in which a model, loss, metric or optimizer call failed
\* has emitted no progress line, yields no summary and processes no later batch.
C6_FailedEpochSilent ==
    Failed =>
        /\ progress = <<>>
        /\ DOMAIN result = {}
        /\ fetched = batch_idx + 1

\* C6 amended: a failed epoch yields no summary and processes no batch after the
\* failing one; the progress lines it has emitted are those of batches completed
\* before the failing one.
C6_FailedEpochNoSummary ==
    Failed =>
        /\ DOMAIN result = {}
        /\ fetched = batch_idx + 1
        /\ \A i \in 1..Len(progress) :
              /\ progress[i].epoch = epoch
              /\ progress[i].done < batch_size *
                     (IF valid_calls = 0 THEN batch_idx ELSE Len(data_loader))

\* a training batch failed after an earlier batch of the epoch had logged its line
C6_Witness ==
    /\ Failed
    /\ valid_calls = 0
    /\ Len(progress) > 0
    /\ batch_idx > 0

\* C7: after n add_entry calls the keys are exactly 1..n and entries[k] is the
\* k-th appended entry.
C7_DenseKeys ==
    /\ DOMAIN entries = 1..Len(appended)
    /\ \A k \in 1..Len(appended) : entries[k] = appended[k]

\* three entries are stored, the third differing from the first
C7_Witness ==
    /\ Len(appended) >= 3
    /\ entries[1] # entries[3]

\* C8: log() on the base logger ends in a "not implemented" error, not in a normal
\* return, and leaves the entries as they were.
C8_LogRaises ==
    log_outcome # "none" =>
        /\ log_outcome = "raised"
        /\ C7_DenseKeys

TrainKeys == {"loss", "metrics"}
ValidKeys == {"val_loss", "val_metrics"}

\* C9: the returned summary has the keys loss and metrics, plus val_loss and
\* val_metrics exactly when a validation loader is configured; loss and metrics are
\* the training means; _valid_epoch ran once if configured and never otherwise.
C9_SummaryKeys ==
    TrainReturned =>
        /\ DOMAIN result = (IF valid THEN TrainKeys \cup ValidKeys ELSE TrainKeys)
        /\ IsMean(result.loss, loss_hist)
        /\ \A i \in 1..Len(metrics) : IsMean(result.metrics[i], Column(metric_hist, i))
        /\ valid_calls = (IF valid THEN 1 ELSE 0)

\* a summary with all four keys was returned
C9_Witness ==
    /\ TrainReturned
    /\ valid
    /\ DOMAIN result = TrainKeys \cup ValidKeys
    /\ Len(metrics) > 0

BatchOrder == <<"zero_grad", "forward", "loss", "backward", "step", "accum_loss",
                "metrics">>

\* C10: the operations of the training loop follow, batch after batch, the order
\* gradient reset, forward, loss, backward, optimizer step, loss accumulation, metric
\* evaluation; one optimizer step per batch; loss accumulation and metric evaluation
\* leave weights and gradients as the optimizer step left them.
C10_BatchOrder ==
    /\ \A i \in 1..Len(trace) :
          /\ trace[i].op = BatchOrder[((i - 1) % Len(BatchOrder)) + 1]
          /\ trace[i].op \in {"accum_loss", "metrics"} =>
                /\ trace[i].params = trace[i - 1].params
                /\ trace[i].grad = trace[i - 1].grad
    /\ pc \in {"log", "viz", "t_fetch", "summary"} /\ call = "train" =>
          /\ Len(trace) = Len(BatchOrder) * fetched
          /\ Cardinality({i \in 1..Len(trace) : trace[i].op = "step"}) = fetched
    /\ pc \in {"log", "viz"} => <<params, grad>> = <<trace[Len(trace)].params,
                                                     trace[Len(trace)].grad>>

\* the second batch of an epoch has been through its metric evaluation
C10_Witness ==
    /\ pc = "log"
    /\ fetched = 2
    /\ Len(metrics) > 0
    /\ Len(trace) = 2 * Len(BatchOrder)

====
